---- MODULE Spec2Model ----
(***************************************************************************)
(* Wagering ledger and settlement engine of oracle-sport-backend.          *)
(*                                                                         *)
(* The store is PostgreSQL at its default isolation level READ COMMITTED:  *)
(* a statement reads the rows committed when it starts plus the writes of  *)
(* its own transaction; UPDATE takes the row's lock until the transaction  *)
(* ends and then works on the latest committed version of the row.  The    *)
(* variables balance, tickets and items are the COMMITTED rows; what a     *)
(* transaction on a pooled client has written and not yet committed is in  *)
(* proc[p].  A statement sent through the pool itself (pool.query, the     *)
(* models' this.db.query) is its own transaction and commits at once.      *)
(* Money is in hundredths (numeric(15,2)).                                 *)
(***************************************************************************)
EXTENDS Integers, Sequences, FiniteSets, TLC

VARIABLES
  balance,          \* users.balance, committed
  tickets,          \* tickets rows, committed
  items,            \* ticket_items rows of each ticket, committed
  nextId,           \* tickets_id_seq
  started,          \* events whose commence_time has passed
  lockUser,         \* holder of each users row lock (0: free)
  lockTicket,       \* holder of each tickets row lock and of its items' locks
  proc,             \* the request each handler slot is serving
  ops,              \* requests received so far
  credited,         \* total added to the owner's balance for each ticket
  numericAsNumber,  \* whether the driver delivers numeric columns as numbers
  oddsRow,          \* odds rows, committed
  eventStatus,      \* events.status
  placedOk,         \* tickets whose placement request returned 201
  calc,             \* one run of the price computation: input and result
  deposits,         \* deposits rows, committed
  withdrawals,      \* withdrawals rows, committed
  handled           \* one run of errorHandler: the error and the response

vars == <<balance, tickets, items, nextId, started, lockUser, lockTicket,
          proc, ops, credited, numericAsNumber, oddsRow, eventStatus, placedOk,
          calc, deposits, withdrawals, handled>>

----------------------------------------------------------------------------
(* Bounds and input sets *)

MaxOps == 3

Users == {1, 2}
Procs == {1, 2}
Events == {1}
OddsIds == {1, 2}
OddsKeys == 1..5
TicketIds == 1..MaxOps
DepositIds == {1, 2}
WithdrawalIds == {1, 2}
Stakes == {1000}
Statuses == {"pending", "won", "lost", "canceled"}
RequestedStatuses == Statuses

(* user 1 can pay one stake, user 2 several *)
InitBalance(u) == IF u = 1 THEN 1000 ELSE 10000

(* odds rows: the event each belongs to and its American price *)
NoOdds == [event |-> 0, price |-> 0]

InitOdds(o) ==
  IF o = 1 THEN [event |-> 1, price |-> 150]
  ELSE IF o = 2 THEN [event |-> 1, price |-> 0 - 120]
  ELSE NoOdds

OddsEvent(o) == oddsRow[o].event
OddsPrice(o) == oddsRow[o].price

(* selections a caller of POST /bets sends: lists of odds ids (3: no row) *)
BetSelections == {<< >>, <<1>>, <<1, 2>>, <<3>>}

(* selections a caller of POST /tickets sends: event, odds row and the     *)
(* caller's own decimal odds_value in hundredths                            *)
TicketSelections ==
  { << >>,
    <<[event_id |-> 1, odds_id |-> 1, odds_value |-> 300]>>,
    <<[event_id |-> 1, odds_id |-> 3, odds_value |-> 250]>> }

----------------------------------------------------------------------------
(* Arithmetic *)

Abs(x) == IF x < 0 THEN 0 - x ELSE x

(* n/d rounded to the nearest integer, halves away from zero (numeric(.,2)) *)
RoundDiv(n, d) == (2 * n + d) \div (2 * d)

(* decimal multiplier of an American price as a fraction <<num, den>>;     *)
(* a price of 0 takes the else branch and divides by zero (Infinity)       *)
DecimalOdds(price) ==
  IF price > 0 THEN <<100 + price, 100>>
  ELSE <<Abs(price) + 100, Abs(price)>>

(* totalOdds *= decimalOdds over the prices of the legs *)
RECURSIVE TotalOddsOf(_)
TotalOddsOf(prices) ==
  IF prices = << >> THEN <<1, 1>>
  ELSE LET d == DecimalOdds(Head(prices))
           r == TotalOddsOf(Tail(prices))
       IN <<d[1] * r[1], d[2] * r[2]>>

TotalOdds(sel) == TotalOddsOf([i \in DOMAIN sel |-> OddsPrice(sel[i])])

(* stakeAmount * totalOdds as stored in potential_payout numeric(15,2) *)
PotentialPayout(stake, odds) == RoundDiv(stake * odds[1], odds[2])

(* totalOdds as stored in total_odds numeric(10,2) *)
StoredTotalOdds(odds) == RoundDiv(100 * odds[1], odds[2])

RECURSIVE TicketTotalOdds(_)
TicketTotalOdds(sel) ==
  IF sel = << >> THEN <<1, 1>>
  ELSE LET r == TicketTotalOdds(Tail(sel))
       IN <<Head(sel).odds_value * r[1], 100 * r[2]>>

----------------------------------------------------------------------------
(* Rows *)

NoTicket == [user |-> 0, stake |-> 0, total_odds |-> 0, payout |-> 0,
             status |-> "none"]

Exists(t) == t \in TicketIds /\ tickets[t].status # "none"

NewTicket(u, s, odds) ==
  [user |-> u, stake |-> s, total_odds |-> StoredTotalOdds(odds),
   payout |-> PotentialPayout(s, odds), status |-> "pending"]

Idle == [pc |-> "idle", op |-> "none", user |-> 0, stake |-> 0, sel |-> << >>,
         tid |-> 0, req |-> "none", snap |-> NoTicket, userBalance |-> 0,
         delta |-> 0, wrote |-> {}, overlap |-> FALSE, result |-> "none",
         quote |-> << >>, tx |-> "none"]

(* a handler after BEGIN on its pooled client *)
Open == [Idle EXCEPT !.tx = "open"]

NoCalc == [prices |-> << >>, stake |-> 0, outcome |-> "none", payout |-> 0]

(* deposits and withdrawals rows; net is the total their status changes    *)
(* have added to the owner's balance, lock the holder of the row's lock    *)
NoDeposit == [user |-> 0, amount |-> 0, status |-> "none", net |-> 0]

NoWithdrawal == [user |-> 0, amount |-> 0, status |-> "none", net |-> 0,
                 lock |-> 0]

NoHandled == [err |-> [kind |-> "none", statusCode |-> 0, message |-> ""],
              status |-> 0, message |-> ""]

SetAll(legs, st) == [i \in DOMAIN legs |-> [legs[i] EXCEPT !.status = st]]

----------------------------------------------------------------------------
(* Initial state: users with a funded balance, no tickets, nobody active *)

InitStore ==
  /\ balance = [u \in Users |-> InitBalance(u)]
  /\ tickets = [t \in TicketIds |-> NoTicket]
  /\ items = [t \in TicketIds |-> << >>]
  /\ nextId = 1
  /\ started = {}
  /\ lockUser = [u \in Users |-> 0]
  /\ lockTicket = [t \in TicketIds |-> 0]
  /\ proc = [p \in Procs |-> Idle]
  /\ ops = 0
  /\ credited = [t \in TicketIds |-> 0]
  /\ numericAsNumber \in BOOLEAN
  /\ oddsRow = [o \in OddsKeys |-> InitOdds(o)]
  /\ eventStatus = [e \in Events |-> "upcoming"]
  /\ placedOk = {}
  /\ deposits = [d \in DepositIds |-> NoDeposit]
  /\ withdrawals = [w \in WithdrawalIds |-> NoWithdrawal]

Init == InitStore /\ calc = NoCalc /\ handled = NoHandled

Active(p) == proc[p].pc # "idle"

(* a request arrives and takes the first free handler slot *)
Begin(p) ==
  /\ ~Active(p)
  /\ \A q \in Procs : q < p => Active(q)
  /\ ops < MaxOps
  /\ ops' = ops + 1

PlaceOps == {"placeBet", "createTicket"}
SettleOps == {"betSettle", "ticketSettle"}

(* q is serving a request that contends with request `me`: a placement of  *)
(* the same user, or a settlement of the same ticket                       *)
Rival(q, me) ==
  /\ Active(q)
  /\ \/ me.op \in PlaceOps /\ proc[q].op \in PlaceOps /\ proc[q].user = me.user
     \/ me.op \in SettleOps /\ proc[q].op \in SettleOps /\ proc[q].tid = me.tid

(* the slots after slot p received request `me`; overlap records that two  *)
(* contending requests were in flight at the same time                     *)
Received(p, me) ==
  LET rivals == IF me.pc = "idle" THEN {}
                ELSE {q \in Procs \ {p} : Rival(q, me)}
  IN [q \in Procs |->
        IF q = p THEN [me EXCEPT !.overlap = rivals # {}]
        ELSE IF q \in rivals THEN [proc[q] EXCEPT !.overlap = TRUE]
        ELSE proc[q]]

(* a handler returns after COMMIT, or after the catch's ROLLBACK: its      *)
(* transaction's locals are dropped and the client is released             *)
Finish(p, res, w) ==
  [proc[p] EXCEPT !.pc = "idle", !.result = res, !.wrote = w, !.delta = 0,
                  !.sel = << >>, !.quote = << >>,
                  !.tx = IF res = "ok" THEN "committed" ELSE "rolledback"]

(* a throw before the first write: the catch's ROLLBACK, then the release *)
Thrown(me, res) == [me EXCEPT !.result = res, !.tx = "rolledback"]

FreeFor(p, lock) == lock = 0 \/ lock = p

Release(p, locks) == [k \in DOMAIN locks |-> IF locks[k] = p THEN 0 ELSE locks[k]]

----------------------------------------------------------------------------
(* The clock passes an event's commence_time *)

EventCommences(e) ==
  /\ e \notin started
  /\ started' = started \cup {e}
  /\ UNCHANGED <<balance, tickets, items, nextId, lockUser, lockTicket, proc,
                 ops, credited, numericAsNumber, oddsRow,
                 eventStatus, placedOk, calc,
                 deposits, withdrawals, handled>>

----------------------------------------------------------------------------
(* Database triggers on tickets (config/query.sql) *)

(* check_user_balance_for_bet, BEFORE INSERT: the balance test *)
InsufficientForBet(user_balance, stake) == user_balance < stake

(* update_user_balance_after_bet_settlement, AFTER UPDATE: whether it      *)
(* updates the owner's row, and the amount it adds                         *)
SettlementTriggerFires(old, new_status) ==
  old.status = "pending" /\ new_status \in {"won", "canceled"}

SettlementTriggerCredit(old, new_status) ==
  IF new_status = "won" /\ old.status = "pending" THEN old.payout
  ELSE IF new_status = "canceled" /\ old.status = "pending" THEN old.stake
  ELSE 0

----------------------------------------------------------------------------
(* BetController.placeBet, POST /bets *)

(* first selection the odds loop rejects: "ok" when it accepts them all *)
RECURSIVE OddsLoop(_)
OddsLoop(sel) ==
  IF sel = << >> THEN "ok"
  ELSE IF oddsRow[Head(sel)] = NoOdds THEN "notfound"
  ELSE IF OddsEvent(Head(sel)) \in started THEN "started"
  ELSE OddsLoop(Tail(sel))

BetLegs(sel) ==
  [i \in DOMAIN sel |-> [odds_id |-> sel[i], event_id |-> OddsEvent(sel[i]),
                         odds_value |-> 100 * OddsPrice(sel[i]),
                         status |-> "pending"]]

(* BEGIN, the selections test, SELECT balance and the balance test *)
PbStart(p, u, s, sel) ==
  /\ Begin(p)
  /\ LET me == [Open EXCEPT !.op = "placeBet", !.user = u, !.stake = s,
                            !.userBalance = balance[u]]
     IN proc' = Received(p,
          IF sel = << >> THEN Thrown(me, "invalid")
          ELSE IF balance[u] < s THEN Thrown(me, "insufficient")
          ELSE [me EXCEPT !.pc = "pb_odds", !.sel = sel])
  /\ UNCHANGED <<balance, tickets, items, nextId, started, lockUser,
                 lockTicket, credited, numericAsNumber, oddsRow,
                 eventStatus, placedOk, calc,
                 deposits, withdrawals, handled>>

(* the odds loop, then INSERT INTO tickets up to the trigger's balance test *)
PbInsert(p) ==
  /\ proc[p].pc = "pb_odds"
  /\ LET me == proc[p]
         loop == OddsLoop(me.sel)
     IN IF loop # "ok"
        THEN /\ proc' = [proc EXCEPT ![p] = Finish(p, loop, {})]
             /\ UNCHANGED nextId
        ELSE /\ nextId' = nextId + 1
             /\ proc' = [proc EXCEPT ![p] =
                  IF InsufficientForBet(balance[me.user], me.stake)
                  THEN Finish(p, "dberror", {})
                  ELSE [me EXCEPT !.pc = "pb_debit", !.tid = nextId,
                                  !.quote = [total |-> TotalOdds(me.sel),
                                             legs |-> BetLegs(me.sel)]]]
  /\ UNCHANGED <<balance, tickets, items, started, lockUser, lockTicket, ops,
                 credited, numericAsNumber, oddsRow,
                 eventStatus, placedOk, calc,
                 deposits, withdrawals, handled>>

(* the trigger's UPDATE users: waits for the row, then debits the stake *)
PbTriggerDebit(p) ==
  /\ proc[p].pc = "pb_debit"
  /\ lockUser[proc[p].user] = 0
  /\ lockUser' = [lockUser EXCEPT ![proc[p].user] = p]
  /\ proc' = [proc EXCEPT ![p].pc = "pb_items",
                          ![p].delta = 0 - proc[p].stake]
  /\ UNCHANGED <<balance, tickets, items, nextId, started, lockTicket, ops,
                 credited, numericAsNumber, oddsRow,
                 eventStatus, placedOk, calc,
                 deposits, withdrawals, handled>>

(* the foreign key ticket_items.odds_id: the rows the legs name exist *)
LegRowsHold(legs) == \A i \in DOMAIN legs : oddsRow[legs[i].odds_id] # NoOdds

(* INSERT INTO ticket_items per selection, UPDATE users, COMMIT; a         *)
(* statement that fails takes the catch: ROLLBACK                          *)
PbCommit(p, fault) ==
  /\ proc[p].pc = "pb_items"
  /\ LET me == proc[p]
     IN IF fault \/ ~LegRowsHold(me.quote.legs)
        THEN /\ proc' = [proc EXCEPT ![p] = Finish(p, "dberror", {})]
             /\ UNCHANGED <<balance, tickets, items, placedOk>>
        ELSE /\ balance' = [balance EXCEPT ![me.user] = @ + me.delta - me.stake]
             /\ tickets' = [tickets EXCEPT ![me.tid] =
                  NewTicket(me.user, me.stake, me.quote.total)]
             /\ items' = [items EXCEPT ![me.tid] = me.quote.legs]
             /\ placedOk' = placedOk \cup {me.tid}
             /\ proc' = [proc EXCEPT ![p] =
                  Finish(p, "ok", {"ticket", "legs", "balance"})]
  /\ lockUser' = Release(p, lockUser)
  /\ UNCHANGED <<nextId, started, lockTicket, ops, credited, numericAsNumber,
                 oddsRow, eventStatus, calc,
                 deposits, withdrawals, handled>>

----------------------------------------------------------------------------
(* BetController.updateTicketStatus, PUT /bets/admin/:id/status *)

(* the same-status test left out *)
SameStatusNever(current, requested) == FALSE

SameStatus(current, requested) == current = requested

(* a credit that pays the payout on a cancellation too *)
BetAppCreditPayout(snap, status) ==
  IF status \in {"won", "canceled"} /\ snap.status = "pending" THEN snap.payout
  ELSE 0

(* the controller's own credit, decided on the row it read at the start *)
BetAppCredit(snap, status) ==
  IF status = "won" /\ snap.status = "pending" THEN snap.payout
  ELSE IF status = "canceled" /\ snap.status = "pending" THEN snap.stake
  ELSE 0

(* BEGIN, the status test, SELECT the ticket, the same-status return *)
UsStart(p, t, st) ==
  /\ Begin(p)
  /\ t <= nextId
  /\ LET me == [Open EXCEPT !.op = "betSettle", !.tid = t, !.req = st]
     IN proc' = Received(p,
          IF st \notin Statuses THEN Thrown(me, "invalid")
          ELSE IF ~Exists(t) THEN Thrown(me, "notfound")
          ELSE IF SameStatus(tickets[t].status, st)
               THEN [me EXCEPT !.result = "noop", !.snap = tickets[t]]
          ELSE [me EXCEPT !.pc = "us_update", !.snap = tickets[t]])
  /\ UNCHANGED <<balance, tickets, items, nextId, started, lockUser,
                 lockTicket, credited, numericAsNumber, oddsRow,
                 eventStatus, placedOk, calc,
                 deposits, withdrawals, handled>>

(* UPDATE tickets with its AFTER UPDATE trigger, UPDATE ticket_items: the  *)
(* rows are locked and the trigger sees the latest committed row as OLD    *)
UsUpdate(p) ==
  /\ proc[p].pc = "us_update"
  /\ LET me == proc[p]
         old == tickets[me.tid]
     IN /\ lockTicket[me.tid] = 0
        /\ lockTicket' = [lockTicket EXCEPT ![me.tid] = p]
        /\ IF SettlementTriggerFires(old, me.req)
           THEN /\ lockUser[old.user] = 0
                /\ lockUser' = [lockUser EXCEPT ![old.user] = p]
           ELSE UNCHANGED lockUser
        /\ proc' = [proc EXCEPT ![p].pc = "us_credit",
                                ![p].delta = SettlementTriggerCredit(old, me.req)]
  /\ UNCHANGED <<balance, tickets, items, nextId, started, ops, credited,
                 numericAsNumber, oddsRow,
                 eventStatus, placedOk, calc,
                 deposits, withdrawals, handled>>

(* the controller's UPDATE users and COMMIT, or the catch's ROLLBACK *)
UsFinish(p, fault) ==
  /\ proc[p].pc = "us_credit"
  /\ LET me == proc[p]
         credit == me.delta + BetAppCredit(me.snap, me.req)
     IN IF fault
        THEN /\ proc' = [proc EXCEPT ![p] = Finish(p, "dberror", {})]
             /\ UNCHANGED <<balance, tickets, items, credited>>
        ELSE /\ BetAppCredit(me.snap, me.req) # 0
                  => FreeFor(p, lockUser[me.snap.user])
             /\ balance' = [balance EXCEPT ![me.snap.user] = @ + credit]
             /\ credited' = [credited EXCEPT ![me.tid] = @ + credit]
             /\ tickets' = IF Exists(me.tid)
                           THEN [tickets EXCEPT ![me.tid].status = me.req]
                           ELSE tickets
             /\ items' = [items EXCEPT ![me.tid] = SetAll(@, me.req)]
             /\ proc' = [proc EXCEPT ![p] =
                  Finish(p, "ok", {"ticket", "legs"} \cup
                           (IF credit # 0 THEN {"balance"} ELSE {}))]
  /\ lockUser' = Release(p, lockUser)
  /\ lockTicket' = Release(p, lockTicket)
  /\ UNCHANGED <<nextId, started, ops, numericAsNumber, oddsRow,
                 eventStatus, placedOk, calc,
                 deposits, withdrawals, handled>>

----------------------------------------------------------------------------
(* models/ticket.ts (TicketModel) and models/user.ts (UserModel): each     *)
(* method is one statement on the pool, outside the caller's transaction   *)

(* a lookup that ignores the id it is given *)
TicketModelFindFirst(t) == IF Exists(1) THEN tickets[1] ELSE NoTicket

TicketModelFindById(t) == IF Exists(t) THEN tickets[t] ELSE NoTicket

UserModelFindById(u) == balance[u]

(* the row ticketModel.updateStatus leaves: an UPDATE that finds no row   *)
(* writes none                                                             *)
TicketModelUpdateStatus(row, st) ==
  IF row = NoTicket THEN NoTicket ELSE [row EXCEPT !.status = st]

----------------------------------------------------------------------------
(* TicketController.createTicket, POST /tickets *)

(* user.balance as the handler sees it: not a number unless the driver     *)
(* parses numeric columns                                                  *)
NotANumber(b) == ~numericAsNumber

(* the foreign keys of ticket_items: every leg's event and odds row exist *)
ForeignKeysHold(sel) ==
  \A i \in DOMAIN sel :
    sel[i].event_id \in Events /\ oddsRow[sel[i].odds_id] # NoOdds

TicketLegs(sel) ==
  [i \in DOMAIN sel |-> [odds_id |-> sel[i].odds_id,
                         event_id |-> sel[i].event_id,
                         odds_value |-> sel[i].odds_value,
                         status |-> "pending"]]

(* BEGIN, validationResult, the selections test, userModel.findById and    *)
(* the balance test                                                        *)
CtStart(p, u, s, sel) ==
  /\ Begin(p)
  /\ LET me == [Open EXCEPT !.op = "createTicket", !.user = u, !.stake = s,
                            !.userBalance = UserModelFindById(u)]
     IN proc' = Received(p,
          IF sel = << >> THEN Thrown(me, "invalid")
          ELSE IF NotANumber(me.userBalance) \/ me.userBalance < s
               THEN Thrown(me, "insufficient")
          ELSE [me EXCEPT !.pc = "ct_ticket", !.sel = sel])
  /\ UNCHANGED <<balance, tickets, items, nextId, started, lockUser,
                 lockTicket, credited, numericAsNumber, oddsRow,
                 eventStatus, placedOk, calc,
                 deposits, withdrawals, handled>>

(* ticketModel.create: INSERT INTO tickets up to the trigger's balance test *)
CtInsert(p) ==
  /\ proc[p].pc = "ct_ticket"
  /\ nextId' = nextId + 1
  /\ proc' = [proc EXCEPT ![p] =
       IF InsufficientForBet(balance[proc[p].user], proc[p].stake)
       THEN Finish(p, "dberror", {})
       ELSE [proc[p] EXCEPT !.pc = "ct_debit", !.tid = nextId]]
  /\ UNCHANGED <<balance, tickets, items, started, lockUser, lockTicket, ops,
                 credited, numericAsNumber, oddsRow,
                 eventStatus, placedOk, calc,
                 deposits, withdrawals, handled>>

(* the trigger's UPDATE users and the end of the INSERT, committed at once *)
CtTriggerDebit(p) ==
  /\ proc[p].pc = "ct_debit"
  /\ LET me == proc[p]
     IN /\ lockUser[me.user] = 0
        /\ balance' = [balance EXCEPT ![me.user] = @ - me.stake]
        /\ tickets' = [tickets EXCEPT ![me.tid] =
             NewTicket(me.user, me.stake, TicketTotalOdds(me.sel))]
        /\ proc' = [proc EXCEPT ![p].pc = "ct_items",
                                ![p].wrote = {"ticket", "balance"}]
  /\ UNCHANGED <<items, nextId, started, lockUser, lockTicket, ops, credited,
                 numericAsNumber, oddsRow,
                 eventStatus, placedOk, calc,
                 deposits, withdrawals, handled>>

(* ticketItemModel.createMany: a transaction of its own on another client *)
CtItems(p) ==
  /\ proc[p].pc = "ct_items"
  /\ LET me == proc[p]
     IN IF ForeignKeysHold(me.sel)
        THEN /\ items' = [items EXCEPT ![me.tid] = TicketLegs(me.sel)]
             /\ proc' = [proc EXCEPT ![p].pc = "ct_balance",
                                     ![p].wrote = @ \cup {"legs"}]
        ELSE /\ proc' = [proc EXCEPT ![p] = Finish(p, "dberror", me.wrote)]
             /\ UNCHANGED items
  /\ UNCHANGED <<balance, tickets, nextId, started, lockUser, lockTicket, ops,
                 credited, numericAsNumber, oddsRow,
                 eventStatus, placedOk, calc,
                 deposits, withdrawals, handled>>

(* the handler's UPDATE users and COMMIT, or the catch's ROLLBACK *)
CtFinish(p, fault) ==
  /\ proc[p].pc = "ct_balance"
  /\ LET me == proc[p]
     IN IF fault
        THEN /\ proc' = [proc EXCEPT ![p] = Finish(p, "dberror", me.wrote)]
             /\ UNCHANGED <<balance, placedOk>>
        ELSE /\ lockUser[me.user] = 0
             /\ balance' = [balance EXCEPT ![me.user] = @ - me.stake]
             /\ placedOk' = placedOk \cup {me.tid}
             /\ proc' = [proc EXCEPT ![p] = Finish(p, "ok", me.wrote)]
  /\ UNCHANGED <<tickets, items, nextId, started, lockUser, lockTicket, ops,
                 credited, numericAsNumber, oddsRow, eventStatus, calc,
                 deposits, withdrawals, handled>>

----------------------------------------------------------------------------
(* TicketController.updateTicketStatus, PUT /tickets/admin/:id/status *)

(* the handler's own credit: the row it read was pending *)
TicketAppCredit(snap, status) ==
  IF status = "won" THEN snap.payout
  ELSE IF status = "canceled" THEN snap.stake
  ELSE 0

(* BEGIN, validationResult, ticketModel.findById, the same-status return   *)
(* and the pending test                                                    *)
TsStart(p, t, st) ==
  /\ Begin(p)
  /\ t <= nextId
  /\ LET me == [Open EXCEPT !.op = "ticketSettle", !.tid = t, !.req = st]
         row == TicketModelFindById(t)
     IN proc' = Received(p,
          IF st \notin Statuses THEN Thrown(me, "invalid")
          ELSE IF row = NoTicket THEN Thrown(me, "notfound")
          ELSE IF SameStatus(row.status, st)
               THEN [Thrown(me, "noop") EXCEPT !.snap = row]
          ELSE IF row.status # "pending"
               THEN [Thrown(me, "illegal") EXCEPT !.snap = row]
          ELSE [me EXCEPT !.pc = "ts_update", !.snap = row])
  /\ UNCHANGED <<balance, tickets, items, nextId, started, lockUser,
                 lockTicket, credited, numericAsNumber, oddsRow,
                 eventStatus, placedOk, calc,
                 deposits, withdrawals, handled>>

(* ticketModel.updateStatus: UPDATE tickets and its AFTER UPDATE trigger,  *)
(* committed at once                                                       *)
TsUpdate(p) ==
  /\ proc[p].pc = "ts_update"
  /\ LET me == proc[p]
         old == tickets[me.tid]
         credit == SettlementTriggerCredit(old, me.req)
     IN /\ lockTicket[me.tid] = 0
        /\ SettlementTriggerFires(old, me.req) => lockUser[old.user] = 0
        /\ tickets' = [tickets EXCEPT ![me.tid] =
             TicketModelUpdateStatus(old, me.req)]
        /\ balance' = [balance EXCEPT ![old.user] = @ + credit]
        /\ credited' = [credited EXCEPT ![me.tid] = @ + credit]
        /\ proc' = [proc EXCEPT ![p].pc = "ts_items",
                                ![p].wrote = {"ticket"} \cup
                                  (IF credit # 0 THEN {"balance"} ELSE {})]
  /\ UNCHANGED <<items, nextId, started, lockUser, lockTicket, ops,
                 numericAsNumber, oddsRow,
                 eventStatus, placedOk, calc,
                 deposits, withdrawals, handled>>

(* ticketItemModel.updateStatusByTicketId, committed at once; when the     *)
(* statement fails the catch rolls the handler's client back               *)
TsItems(p, fault) ==
  /\ proc[p].pc = "ts_items"
  /\ LET me == proc[p]
     IN IF fault
        THEN /\ proc' = [proc EXCEPT ![p] = Finish(p, "dberror", me.wrote)]
             /\ UNCHANGED items
        ELSE /\ lockTicket[me.tid] = 0
             /\ items' = [items EXCEPT ![me.tid] = SetAll(@, me.req)]
             /\ proc' = [proc EXCEPT ![p].pc = "ts_credit",
                                     ![p].wrote = @ \cup {"legs"}]
  /\ UNCHANGED <<balance, tickets, nextId, started, lockUser, lockTicket, ops,
                 credited, numericAsNumber, oddsRow,
                 eventStatus, placedOk, calc,
                 deposits, withdrawals, handled>>

(* the handler's UPDATE users and COMMIT *)
TsFinish(p) ==
  /\ proc[p].pc = "ts_credit"
  /\ LET me == proc[p]
         credit == TicketAppCredit(me.snap, me.req)
     IN /\ me.req \in {"won", "canceled"} => lockUser[me.snap.user] = 0
        /\ balance' = [balance EXCEPT ![me.snap.user] = @ + credit]
        /\ credited' = [credited EXCEPT ![me.tid] = @ + credit]
        /\ proc' = [proc EXCEPT ![p] =
             Finish(p, "ok", me.wrote \cup
                      (IF credit # 0 THEN {"balance"} ELSE {}))]
  /\ UNCHANGED <<tickets, items, nextId, started, lockUser, lockTicket, ops,
                 numericAsNumber, oddsRow,
                 eventStatus, placedOk, calc,
                 deposits, withdrawals, handled>>

----------------------------------------------------------------------------
Next ==
  \/ \E e \in Events : EventCommences(e)
  \/ \E p \in Procs, u \in Users, s \in Stakes, sel \in BetSelections :
       PbStart(p, u, s, sel)
  \/ \E p \in Procs : PbInsert(p)
  \/ \E p \in Procs : PbTriggerDebit(p)
  \/ \E p \in Procs, fault \in BOOLEAN : PbCommit(p, fault)
  \/ \E p \in Procs, t \in TicketIds, st \in RequestedStatuses :
       UsStart(p, t, st)
  \/ \E p \in Procs : UsUpdate(p)
  \/ \E p \in Procs, fault \in BOOLEAN : UsFinish(p, fault)
  \/ \E p \in Procs, u \in Users, s \in Stakes, sel \in TicketSelections :
       CtStart(p, u, s, sel)
  \/ \E p \in Procs : CtInsert(p)
  \/ \E p \in Procs : CtTriggerDebit(p)
  \/ \E p \in Procs : CtItems(p)
  \/ \E p \in Procs, fault \in BOOLEAN : CtFinish(p, fault)
  \/ \E p \in Procs, t \in TicketIds, st \in RequestedStatuses :
       TsStart(p, t, st)
  \/ \E p \in Procs : TsUpdate(p)
  \/ \E p \in Procs, fault \in BOOLEAN : TsItems(p, fault)
  \/ \E p \in Procs : TsFinish(p)

Spec == Init /\ [][Next]_vars

----------------------------------------------------------------------------
(* TicketController.deleteTicket, DELETE /tickets/admin/:id *)

(* BEGIN, ticketModel.findById, the pending-or-canceled test *)
DtStart(p, t) ==
  /\ Begin(p)
  /\ t <= nextId
  /\ LET me == [Open EXCEPT !.op = "deleteTicket", !.tid = t]
         row == TicketModelFindById(t)
     IN proc' = Received(p,
          IF row = NoTicket THEN Thrown(me, "notfound")
          ELSE IF row.status \notin {"pending", "canceled"}
               THEN [Thrown(me, "illegal") EXCEPT !.snap = row]
          ELSE [me EXCEPT !.pc = "dt_items", !.snap = row])
  /\ UNCHANGED <<balance, tickets, items, nextId, started, lockUser,
                 lockTicket, credited, numericAsNumber, oddsRow,
                 eventStatus, placedOk, calc,
                 deposits, withdrawals, handled>>

(* the handler's UPDATE users for a pending ticket, on its client, then    *)
(* ticketItemModel.deleteByTicketId, committed at once                     *)
DtItems(p) ==
  /\ proc[p].pc = "dt_items"
  /\ LET me == proc[p]
         refund == me.snap.status = "pending"
     IN /\ lockTicket[me.tid] = 0
        /\ refund => lockUser[me.snap.user] = 0
        /\ lockUser' = IF refund THEN [lockUser EXCEPT ![me.snap.user] = p]
                       ELSE lockUser
        /\ items' = [items EXCEPT ![me.tid] = << >>]
        /\ proc' = [proc EXCEPT ![p].pc = "dt_ticket",
                                ![p].delta = IF refund THEN me.snap.stake ELSE 0,
                                ![p].wrote = {"legs"}]
  /\ UNCHANGED <<balance, tickets, nextId, started, lockTicket, ops, credited,
                 numericAsNumber, oddsRow, eventStatus, placedOk, calc,
                 deposits, withdrawals, handled>>

(* ticketModel.delete, committed at once, and COMMIT of the refund; when   *)
(* no row was deleted or the statement fails, the catch's ROLLBACK         *)
DtFinish(p, fault) ==
  /\ proc[p].pc = "dt_ticket"
  /\ LET me == proc[p]
     IN /\ lockTicket[me.tid] = 0
        /\ IF fault \/ ~Exists(me.tid)
           THEN /\ proc' = [proc EXCEPT ![p] = Finish(p, "dberror", me.wrote)]
                /\ UNCHANGED <<balance, tickets, items, credited>>
           ELSE /\ tickets' = [tickets EXCEPT ![me.tid] = NoTicket]
                /\ items' = [items EXCEPT ![me.tid] = << >>]
                /\ balance' = [balance EXCEPT ![me.snap.user] = @ + me.delta]
                /\ credited' = [credited EXCEPT ![me.tid] = @ + me.delta]
                /\ proc' = [proc EXCEPT ![p] =
                     Finish(p, "ok", {"ticket", "legs"} \cup
                              (IF me.delta # 0 THEN {"balance"} ELSE {}))]
  /\ lockUser' = Release(p, lockUser)
  /\ UNCHANGED <<nextId, started, lockTicket, ops, numericAsNumber, oddsRow,
                 eventStatus, placedOk, calc,
                 deposits, withdrawals, handled>>

----------------------------------------------------------------------------
(* The catalogue: odds rows and events change under the tickets *)

CatalogPrices == {150, 300}
EventStatuses == {"upcoming", "canceled"}

(* one more operation of the bounded run *)
Counted ==
  /\ ops < MaxOps
  /\ ops' = ops + 1

(* OddsModel.updatePrices: UPDATE odds SET price *)
OddsModelUpdatePricesLegs(o, price) ==
  /\ Counted
  /\ oddsRow[o] # NoOdds
  /\ oddsRow[o].price # price
  /\ oddsRow' = [oddsRow EXCEPT ![o].price = price]
  /\ items' = [t \in TicketIds |->
       [i \in DOMAIN items[t] |->
          IF items[t][i].odds_id = o
          THEN [items[t][i] EXCEPT !.odds_value = 100 * price]
          ELSE items[t][i]]]
  /\ UNCHANGED <<balance, tickets, nextId, started, lockUser, lockTicket,
                 proc, credited, numericAsNumber, eventStatus, placedOk, calc,
                 deposits, withdrawals, handled>>

OddsModelUpdatePrices(o, price) ==
  /\ Counted
  /\ oddsRow[o] # NoOdds
  /\ oddsRow[o].price # price
  /\ oddsRow' = [oddsRow EXCEPT ![o].price = price]
  /\ UNCHANGED <<balance, tickets, items, nextId, started, lockUser,
                 lockTicket, proc, credited, numericAsNumber, eventStatus,
                 placedOk, calc,
                 deposits, withdrawals, handled>>

(* EventModel.updateStatus: UPDATE events SET status *)
EventModelUpdateStatus(e, st) ==
  /\ Counted
  /\ eventStatus[e] # st
  /\ eventStatus' = [eventStatus EXCEPT ![e] = st]
  /\ UNCHANGED <<balance, tickets, items, nextId, started, lockUser,
                 lockTicket, proc, credited, numericAsNumber, oddsRow,
                 placedOk, calc,
                 deposits, withdrawals, handled>>

RowsOfEvent(e) == {o \in OddsKeys : oddsRow[o].event = e}

(* ON DELETE CASCADE of ticket_items.odds_id: the legs left when the odds  *)
(* rows `gone` are deleted                                                 *)
CascadeLegs(legs, gone) ==
  LET Kept(l) == l.odds_id \notin gone IN SelectSeq(legs, Kept)

(* OddsApiService.syncEventToDatabase for an event already stored: the     *)
(* event is updated to upcoming, its odds rows are deleted and the odds of *)
(* the feed inserted as new rows (the next ids of the sequence)            *)
SyncEventToDatabase(e) ==
  /\ Counted
  /\ LET gone == RowsOfEvent(e)
     IN /\ gone = OddsIds
        /\ \A t \in TicketIds :
             CascadeLegs(items[t], gone) # items[t] => lockTicket[t] = 0
        /\ eventStatus' = [eventStatus EXCEPT ![e] = "upcoming"]
        /\ oddsRow' = [o \in OddsKeys |->
             IF o \in gone THEN NoOdds
             ELSE IF o - 3 \in gone THEN oddsRow[o - 3]
             ELSE oddsRow[o]]
        /\ items' = [t \in TicketIds |-> CascadeLegs(items[t], gone)]
  /\ UNCHANGED <<balance, tickets, nextId, started, lockUser, lockTicket,
                 proc, credited, numericAsNumber, placedOk, calc,
                 deposits, withdrawals, handled>>

CatalogUsers == {2}
CatalogStakes == {1000, 0, 0 - 1000}
CatalogSelections == {<<1>>, <<1, 2>>}

InitCatalog == Init /\ ~numericAsNumber

NextCatalog ==
  \/ \E e \in Events : EventCommences(e)
  \/ \E p \in Procs, u \in CatalogUsers, s \in CatalogStakes,
        sel \in CatalogSelections : PbStart(p, u, s, sel)
  \/ \E p \in Procs : PbInsert(p)
  \/ \E p \in Procs : PbTriggerDebit(p)
  \/ \E p \in Procs, fault \in BOOLEAN : PbCommit(p, fault)
  \/ \E p \in Procs, t \in TicketIds, st \in RequestedStatuses :
       UsStart(p, t, st)
  \/ \E p \in Procs : UsUpdate(p)
  \/ \E p \in Procs, fault \in BOOLEAN : UsFinish(p, fault)
  \/ \E p \in Procs, t \in TicketIds : DtStart(p, t)
  \/ \E p \in Procs : DtItems(p)
  \/ \E p \in Procs, fault \in BOOLEAN : DtFinish(p, fault)
  \/ \E o \in OddsKeys, price \in CatalogPrices : OddsModelUpdatePrices(o, price)
  \/ \E e \in Events, st \in EventStatuses : EventModelUpdateStatus(e, st)
  \/ \E e \in Events : SyncEventToDatabase(e)

SpecCatalog == InitCatalog /\ [][NextCatalog]_vars

----------------------------------------------------------------------------
(* The price computation of placeBet on its own: American prices of the    *)
(* legs and a stake in, what INSERT INTO tickets stores out                *)

CalcPrices == {0 - 200, 0 - 120, 0, 100, 150}
CalcStakes == {1, 1000, 2550}
MaxLegs == 2

PriceLists ==
  UNION {[1..n -> CalcPrices] : n \in 1..MaxLegs}

InitPrice ==
  /\ InitStore
  /\ calc \in {[NoCalc EXCEPT !.prices = ps, !.stake = s] :
                 ps \in PriceLists, s \in CalcStakes}
  /\ handled = NoHandled

(* the loop of placeBet and the INSERT: an infinite totalOdds is refused   *)
(* by the numeric columns and the request ends in the catch                *)
Quote ==
  /\ calc.outcome = "none"
  /\ LET total == TotalOddsOf(calc.prices)
     IN calc' = IF total[2] = 0
                THEN [calc EXCEPT !.outcome = "dberror"]
                ELSE [calc EXCEPT !.outcome = "stored",
                                  !.payout = PotentialPayout(calc.stake, total)]
  /\ UNCHANGED <<balance, tickets, items, nextId, started, lockUser,
                 lockTicket, proc, ops, credited, numericAsNumber, oddsRow,
                 eventStatus, placedOk, deposits, withdrawals, handled>>

NextPrice == Quote

SpecPrice == InitPrice /\ [][NextPrice]_vars

----------------------------------------------------------------------------
(* The administrator's desk: two tickets placed earlier through POST /bets, *)
(* one of each user, both in the same status, and the requests made on     *)
(* them                                                                    *)

DeskTickets == {1, 2}
DeskSelections == {<<1>>}

(* the ticket of user u as placeBet stored it, since then set to status st *)
DeskTicket(u, st) ==
  [NewTicket(u, CHOOSE s \in Stakes : TRUE,
             TotalOddsOf(<<InitOdds(1).price>>)) EXCEPT !.status = st]

DeskLegs(st) ==
  <<[odds_id |-> 1, event_id |-> InitOdds(1).event,
     odds_value |-> 100 * InitOdds(1).price, status |-> st]>>

InitDesk ==
  /\ \E st \in Statuses :
       /\ tickets = [t \in TicketIds |->
            IF t \in DeskTickets THEN DeskTicket(t, st) ELSE NoTicket]
       /\ items = [t \in TicketIds |->
            IF t \in DeskTickets THEN DeskLegs(st) ELSE << >>]
  /\ balance = [u \in Users |-> InitBalance(2)]
  /\ nextId = 3
  /\ placedOk = DeskTickets
  /\ started = {}
  /\ lockUser = [u \in Users |-> 0]
  /\ lockTicket = [t \in TicketIds |-> 0]
  /\ proc = [p \in Procs |-> Idle]
  /\ ops = 0
  /\ credited = [t \in TicketIds |-> 0]
  /\ numericAsNumber = FALSE
  /\ oddsRow = [o \in OddsKeys |-> InitOdds(o)]
  /\ eventStatus = [e \in Events |-> "upcoming"]
  /\ deposits = [d \in DepositIds |-> NoDeposit]
  /\ withdrawals = [w \in WithdrawalIds |-> NoWithdrawal]
  /\ calc = NoCalc
  /\ handled = NoHandled

NextDesk ==
  \/ \E p \in Procs, u \in Users, s \in Stakes, sel \in DeskSelections :
       PbStart(p, u, s, sel)
  \/ \E p \in Procs : PbInsert(p)
  \/ \E p \in Procs : PbTriggerDebit(p)
  \/ \E p \in Procs, fault \in BOOLEAN : PbCommit(p, fault)
  \/ \E p \in Procs, t \in TicketIds, st \in RequestedStatuses :
       UsStart(p, t, st)
  \/ \E p \in Procs : UsUpdate(p)
  \/ \E p \in Procs, fault \in BOOLEAN : UsFinish(p, fault)
  \/ \E p \in Procs, t \in TicketIds, st \in RequestedStatuses :
       TsStart(p, t, st)
  \/ \E p \in Procs : TsUpdate(p)
  \/ \E p \in Procs, fault \in BOOLEAN : TsItems(p, fault)
  \/ \E p \in Procs : TsFinish(p)
  \/ \E p \in Procs, t \in TicketIds : DtStart(p, t)
  \/ \E p \in Procs : DtItems(p)
  \/ \E p \in Procs, fault \in BOOLEAN : DtFinish(p, fault)

SpecDesk == InitDesk /\ [][NextDesk]_vars

----------------------------------------------------------------------------
(* Deposits, withdrawals and the administrator's update of a user          *)

LedgerUsers == {1}
Amounts == {1000}
AdminBalances == {0, 5000}
LedgerStatuses == {"pending", "completed", "rejected"}

(* update_user_balance_after_deposit, AFTER INSERT OR UPDATE on deposits:  *)
(* the amount it adds to the owner's balance (old status "none": INSERT)   *)
DepositTriggerCredit(old_status, new_status, amount) ==
  IF new_status = "completed" /\ old_status # "completed" THEN amount ELSE 0

(* update_user_balance_after_withdrawal, AFTER INSERT OR UPDATE on         *)
(* withdrawals: the amount it takes from the owner's balance               *)
WithdrawalTriggerDebit(old_status, new_status, amount) ==
  IF new_status = "completed" /\ old_status # "completed" THEN amount ELSE 0

(* the id the sequence gives the next row; the tables of a run hold as     *)
(* many rows as DepositIds and WithdrawalIds have ids                      *)
NextRow(rows) ==
  CHOOSE k \in DOMAIN rows :
    rows[k].status = "none" /\ \A j \in DOMAIN rows : j < k => rows[j].status # "none"

HasRoom(rows) == \E k \in DOMAIN rows : rows[k].status = "none"

(* DepositController.createDeposit: depositModel.create with status pending *)
CreateDeposit(u, a) ==
  /\ HasRoom(deposits)
  /\ LET credit == DepositTriggerCredit("none", "pending", a)
     IN /\ deposits' = [deposits EXCEPT ![NextRow(deposits)] =
             [user |-> u, amount |-> a, status |-> "pending", net |-> credit]]
        /\ balance' = [balance EXCEPT ![u] = @ + credit]
  /\ UNCHANGED <<tickets, items, nextId, started, lockUser, lockTicket, proc,
                 ops, credited, numericAsNumber, oddsRow, eventStatus,
                 placedOk, calc, withdrawals, handled>>

(* DepositController.updateDepositStatus: BEGIN on the handler's client,   *)
(* depositModel.findById, the same-status return and the pending test      *)
DsStart(p, d, st) ==
  /\ Begin(p)
  /\ LET me == [Open EXCEPT !.op = "depositStatus", !.tid = d, !.req = st]
         row == deposits[d]
     IN proc' = Received(p,
          IF row.status = "none" THEN Thrown(me, "notfound")
          ELSE IF row.status = st
               THEN [Thrown(me, "noop") EXCEPT !.snap = row]
          ELSE IF row.status # "pending"
               THEN [Thrown(me, "illegal") EXCEPT !.snap = row]
          ELSE [me EXCEPT !.pc = "ds_update", !.snap = row, !.user = row.user])
  /\ UNCHANGED <<balance, tickets, items, nextId, started, lockUser,
                 lockTicket, credited, numericAsNumber, oddsRow, eventStatus,
                 placedOk, calc, deposits, withdrawals, handled>>

(* depositModel.updateStatus: UPDATE deposits through the pool with its    *)
(* trigger, committed at once; the trigger sees the latest row as OLD      *)
DsUpdate(p, fault) ==
  /\ proc[p].pc = "ds_update"
  /\ LET me == proc[p]
         old == deposits[me.tid]
         credit == DepositTriggerCredit(old.status, me.req, old.amount)
     IN IF fault
        THEN /\ proc' = [proc EXCEPT ![p] = Finish(p, "dberror", {})]
             /\ UNCHANGED <<balance, deposits>>
        ELSE /\ credit # 0 => lockUser[old.user] = 0
             /\ deposits' = [deposits EXCEPT ![me.tid].status = me.req,
                                             ![me.tid].net = @ + credit]
             /\ balance' = [balance EXCEPT ![old.user] = @ + credit]
             /\ proc' = [proc EXCEPT ![p] =
                  IF me.req = "completed"
                  THEN [me EXCEPT !.pc = "ds_credit",
                                  !.wrote = {"deposit"} \cup
                                    (IF credit # 0 THEN {"balance"} ELSE {})]
                  ELSE Finish(p, "ok", {"deposit"})]
  /\ UNCHANGED <<tickets, items, nextId, started, lockUser, lockTicket, ops,
                 credited, numericAsNumber, oddsRow, eventStatus, placedOk,
                 calc, withdrawals, handled>>

(* userModel.updateBalance(deposit.user_id, deposit.amount) through the    *)
(* pool, committed at once, then COMMIT on the handler's client            *)
DsCredit(p, fault) ==
  /\ proc[p].pc = "ds_credit"
  /\ LET me == proc[p]
     IN IF fault
        THEN /\ proc' = [proc EXCEPT ![p] = Finish(p, "dberror", me.wrote)]
             /\ UNCHANGED <<balance, deposits>>
        ELSE /\ lockUser[me.snap.user] = 0
             /\ balance' = [balance EXCEPT ![me.snap.user] = @ + me.snap.amount]
             /\ deposits' = [deposits EXCEPT ![me.tid].net = @ + me.snap.amount]
             /\ proc' = [proc EXCEPT ![p] =
                  Finish(p, "ok", me.wrote \cup {"balance"})]
  /\ UNCHANGED <<tickets, items, nextId, started, lockUser, lockTicket, ops,
                 credited, numericAsNumber, oddsRow, eventStatus, placedOk,
                 calc, withdrawals, handled>>

(* WithdrawalController.createWithdrawal: the balance test, then INSERT    *)
(* with status pending and COMMIT                                          *)
CreateWithdrawal(u, a) ==
  /\ HasRoom(withdrawals)
  /\ IF UserModelFindById(u) < a
     THEN UNCHANGED <<balance, withdrawals>>
     ELSE LET debit == WithdrawalTriggerDebit("none", "pending", a)
          IN /\ withdrawals' = [withdrawals EXCEPT ![NextRow(withdrawals)] =
                  [user |-> u, amount |-> a, status |-> "pending",
                   net |-> 0 - debit, lock |-> 0]]
             /\ balance' = [balance EXCEPT ![u] = @ - debit]
  /\ UNCHANGED <<tickets, items, nextId, started, lockUser, lockTicket, proc,
                 ops, credited, numericAsNumber, oddsRow, eventStatus,
                 placedOk, calc, deposits, handled>>

(* the test of the completed branch left out *)
BalanceNegativeNever(b) == FALSE

(* user.balance < 0, on the balance the transaction sees after its update  *)
BalanceNegative(b) == b < 0

(* WithdrawalController.updateWithdrawalStatus: BEGIN, SELECT the          *)
(* withdrawal, the same-status return and the pending test                 *)
WsStart(p, w, st) ==
  /\ Begin(p)
  /\ LET me == [Open EXCEPT !.op = "withdrawalStatus", !.tid = w, !.req = st]
         row == withdrawals[w]
     IN proc' = Received(p,
          IF row.status = "none" THEN Thrown(me, "notfound")
          ELSE IF row.status = st
               THEN [Thrown(me, "noop") EXCEPT !.snap = row]
          ELSE IF row.status # "pending"
               THEN [Thrown(me, "illegal") EXCEPT !.snap = row]
          ELSE [me EXCEPT !.pc = "ws_update", !.snap = row, !.user = row.user])
  /\ UNCHANGED <<balance, tickets, items, nextId, started, lockUser,
                 lockTicket, credited, numericAsNumber, oddsRow, eventStatus,
                 placedOk, calc, deposits, withdrawals, handled>>

(* UPDATE withdrawals on the handler's client with its trigger: the row is *)
(* locked, the trigger sees the latest committed row as OLD and its UPDATE *)
(* users waits for the owner's row                                         *)
WsUpdate(p) ==
  /\ proc[p].pc = "ws_update"
  /\ LET me == proc[p]
         old == withdrawals[me.tid]
         debit == WithdrawalTriggerDebit(old.status, me.req, old.amount)
     IN /\ old.lock = 0
        /\ withdrawals' = [withdrawals EXCEPT ![me.tid].lock = p]
        /\ IF debit # 0
           THEN /\ lockUser[old.user] = 0
                /\ lockUser' = [lockUser EXCEPT ![old.user] = p]
           ELSE UNCHANGED lockUser
        /\ proc' = [proc EXCEPT ![p].pc = "ws_finish", ![p].delta = 0 - debit]
  /\ UNCHANGED <<balance, tickets, items, nextId, started, lockTicket, ops,
                 credited, numericAsNumber, oddsRow, eventStatus, placedOk,
                 calc, deposits, handled>>

(* the rejected branch's UPDATE users, the completed branch's SELECT       *)
(* balance and test, then COMMIT; a throw takes the catch's ROLLBACK       *)
WsFinish(p, fault) ==
  /\ proc[p].pc = "ws_finish"
  /\ LET me == proc[p]
         u == me.snap.user
         refund == IF me.req = "rejected" THEN me.snap.amount ELSE 0
         seen == balance[u] + me.delta
         unlocked == [withdrawals EXCEPT ![me.tid].lock = 0]
     IN /\ refund # 0 => FreeFor(p, lockUser[u])
        /\ IF fault
           THEN /\ proc' = [proc EXCEPT ![p] = Finish(p, "dberror", {})]
                /\ withdrawals' = unlocked
                /\ UNCHANGED balance
           ELSE IF me.req = "completed" /\ BalanceNegative(seen)
           THEN /\ proc' = [proc EXCEPT ![p] = Finish(p, "negative", {})]
                /\ withdrawals' = unlocked
                /\ UNCHANGED balance
           ELSE /\ withdrawals' = [unlocked EXCEPT
                                     ![me.tid].status = me.req,
                                     ![me.tid].net = @ + me.delta + refund]
                /\ balance' = [balance EXCEPT ![u] = @ + me.delta + refund]
                /\ proc' = [proc EXCEPT ![p] =
                     Finish(p, "ok", {"withdrawal"} \cup
                              (IF me.delta + refund # 0 THEN {"balance"}
                               ELSE {}))]
  /\ lockUser' = Release(p, lockUser)
  /\ UNCHANGED <<tickets, items, nextId, started, lockTicket, ops, credited,
                 numericAsNumber, oddsRow, eventStatus, placedOk, calc,
                 deposits, handled>>

(* UserController.updateUserByAdmin with a balance in the body:            *)
(* UPDATE users SET balance = $1                                           *)
UpdateUserByAdmin(u, b) ==
  /\ Counted
  /\ lockUser[u] = 0
  /\ balance[u] # b
  /\ balance' = [balance EXCEPT ![u] = b]
  /\ UNCHANGED <<tickets, items, nextId, started, lockUser, lockTicket, proc,
                 credited, numericAsNumber, oddsRow, eventStatus, placedOk,
                 calc, deposits, withdrawals, handled>>

InitLedger == Init /\ ~numericAsNumber

NextLedger ==
  \/ \E u \in LedgerUsers, a \in Amounts : CreateDeposit(u, a)
  \/ \E p \in Procs, d \in DepositIds, st \in LedgerStatuses : DsStart(p, d, st)
  \/ \E p \in Procs, fault \in BOOLEAN : DsUpdate(p, fault)
  \/ \E p \in Procs, fault \in BOOLEAN : DsCredit(p, fault)
  \/ \E u \in LedgerUsers, a \in Amounts : CreateWithdrawal(u, a)
  \/ \E p \in Procs, w \in WithdrawalIds, st \in LedgerStatuses :
       WsStart(p, w, st)
  \/ \E p \in Procs : WsUpdate(p)
  \/ \E p \in Procs, fault \in BOOLEAN : WsFinish(p, fault)
  \/ \E u \in LedgerUsers, b \in AdminBalances : UpdateUserByAdmin(u, b)

SpecLedger == InitLedger /\ [][NextLedger]_vars

----------------------------------------------------------------------------
(* middlewares/errorHandler.ts: what the caller is told about an error a   *)
(* handler passed to next(error)                                           *)

StatusCodes == {400, 401, 403, 404, 500}

DomainMessages ==
  { "Saldo insuficiente", "Ticket no encontrado", "Usuario no encontrado",
    "Estado de ticket invalido", "ID de ticket invalido",
    "Datos de deposito invalidos", "Deposito no encontrado",
    "Retiro no encontrado", "Metodo de retiro invalido",
    "No se pudo eliminar el ticket", "No se pudo eliminar el deposito",
    "Solo se pueden eliminar tickets pendientes o cancelados" }

FaultMessages ==
  { "Insufficient balance to place bet", "numeric field overflow",
    "insert or update on table ticket_items violates foreign key constraint",
    "duplicate key value violates unique constraint",
    "Connection terminated unexpectedly", "timeout exceeded when trying to connect",
    "Cannot read properties of undefined", "deadlock detected",
    "invalid input syntax for type integer", "relation does not exist",
    "jwt malformed", "request entity too large" }

(* new AppError(message, statusCode), and any other Error, which may carry *)
(* a statusCode property of its own (0: none)                              *)
Errors ==
  {[kind |-> "AppError", statusCode |-> c, message |-> m] :
     c \in StatusCodes, m \in DomainMessages}
  \cup {[kind |-> "Error", statusCode |-> c, message |-> m] :
          c \in {0, 400}, m \in FaultMessages}

InternalMessage == "Error interno del servidor"

(* every error taken for an AppError *)
IsAppErrorAlways(err) == TRUE

(* err instanceof AppError *)
IsAppError(err) == err.kind = "AppError"

InitError ==
  /\ InitStore
  /\ calc = NoCalc
  /\ handled \in {[NoHandled EXCEPT !.err = err] : err \in Errors}

ErrorHandler ==
  /\ handled.status = 0
  /\ handled' = IF IsAppError(handled.err)
                 THEN [handled EXCEPT !.status = handled.err.statusCode,
                                      !.message = handled.err.message]
                 ELSE [handled EXCEPT !.status = 500,
                                      !.message = InternalMessage]
  /\ UNCHANGED <<balance, tickets, items, nextId, started, lockUser,
                 lockTicket, proc, ops, credited, numericAsNumber, oddsRow,
                 eventStatus, placedOk, calc, deposits, withdrawals>>

NextError == ErrorHandler

SpecError == InitError /\ [][NextError]_vars

----------------------------------------------------------------------------
(* Properties *)

Terminal == {"won", "lost", "canceled"}

Quiet == \A p \in Procs : ~Active(p)

RECURSIVE Sum(_, _)
Sum(f, S) ==
  IF S = {} THEN 0
  ELSE LET x == CHOOSE y \in S : TRUE IN f[x] + Sum(f, S \ {x})

StakesPlaced(u) ==
  Sum([t \in TicketIds |-> IF tickets[t].user = u THEN tickets[t].stake ELSE 0],
      TicketIds)

PayoutsWon(u) ==
  Sum([t \in TicketIds |->
         IF tickets[t].user = u /\ tickets[t].status = "won"
         THEN tickets[t].payout ELSE 0], TicketIds)

StakesCanceled(u) ==
  Sum([t \in TicketIds |->
         IF tickets[t].user = u /\ tickets[t].status = "canceled"
         THEN tickets[t].stake ELSE 0], TicketIds)

LegsAre(t, st) == \A i \in DOMAIN items[t] : items[t][i].status = st

(* The driver's default: numeric columns arrive as strings, so that POST  *)
(* /tickets places nothing and every ticket comes from POST /bets.        *)
DriverDefault == ~numericAsNumber

(* C1: conservation.  With no request in flight, every user's balance is   *)
(* the initial balance minus the stakes of all placed tickets plus the     *)
(* payouts of the won tickets plus the stakes of the canceled tickets.     *)
(* Stated under DriverDefault.                                            *)
C1_Conservation ==
  DriverDefault =>
    ( Quiet => \A u \in Users :
        balance[u] = InitBalance(u) - StakesPlaced(u) + PayoutsWon(u)
                       + StakesCanceled(u) )

(* C2: no negative balance.  In every committed state every user's balance *)
(* is at least zero.                                                       *)
(* Stated under DriverDefault.                                            *)
C2_NoNegativeBalance ==
  DriverDefault =>
    ( \A u \in Users : balance[u] >= 0 )

(* C3: no double-spend.  Two placements of one user that were in flight at *)
(* the same time, read the same balance, and whose stakes that balance     *)
(* covers only one of, do not both commit.                                 *)
(* Stated under DriverDefault.                                            *)
C3_NoDoubleSpend ==
  DriverDefault =>
    ( \A p, q \in Procs :
        ( /\ p # q
          /\ proc[p].op \in PlaceOps /\ proc[q].op \in PlaceOps
          /\ proc[p].overlap /\ proc[q].overlap
          /\ proc[p].user = proc[q].user
          /\ proc[p].userBalance = proc[q].userBalance
          /\ proc[p].userBalance < proc[p].stake + proc[q].stake )
        => ~(proc[p].result = "ok" /\ proc[q].result = "ok") )

(* C4: exactly-once settlement under concurrency.  When two settlement     *)
(* requests that both read the ticket as pending were in flight at the     *)
(* same time and both returned success, the owner was credited for one     *)
(* transition at most: nothing, the payout or the stake.                   *)
(* Stated under DriverDefault.                                            *)
C4_SettledOnceConcurrently ==
  DriverDefault =>
    ( \A p, q \in Procs :
        ( /\ p # q
          /\ proc[p].op \in SettleOps /\ proc[q].op \in SettleOps
          /\ proc[p].tid = proc[q].tid
          /\ proc[p].overlap /\ proc[q].overlap
          /\ proc[p].snap.status = "pending" /\ proc[q].snap.status = "pending"
          /\ proc[p].result = "ok" /\ proc[q].result = "ok" )
        => credited[proc[p].tid] \in
             {0, tickets[proc[p].tid].payout, tickets[proc[p].tid].stake} )

(* C5: terminal states are absorbing.  A settlement request that finds the *)
(* ticket won, lost or canceled and asks for a different status is         *)
(* rejected at once as an illegal transition: it goes no further.  Stated  *)
(* for a request that met no other request for the ticket in flight.       *)
(* Stated under DriverDefault.                                            *)
C5_TerminalAbsorbing ==
  DriverDefault =>
    ( \A p \in Procs :
        ( /\ proc[p].op \in SettleOps
          /\ proc[p].snap.status \in Terminal
          /\ proc[p].req # proc[p].snap.status
          /\ ~proc[p].overlap )
        => (~Active(p) /\ proc[p].result = "illegal") )

(* slot p receives a request in this step *)
Receives(p) ==
  /\ ops' = ops + 1
  /\ ~Active(p)
  /\ \A q \in Procs : q < p => Active(q)

(* C6: idempotent settlement.  A settlement request for the status the     *)
(* ticket already has returns at once, without error, and writes nothing   *)
(* to the ticket, its legs or any balance.                                 *)
C6_SameStatusNoOp ==
  [][\A p \in Procs :
       ( /\ Receives(p)
         /\ proc'[p].op \in SettleOps
         /\ Exists(proc'[p].tid)
         /\ tickets[proc'[p].tid].status = proc'[p].req )
       => ( /\ proc'[p].result = "noop"
            /\ ~Active(p)'
            /\ UNCHANGED <<balance, tickets, items, credited>> )]_vars

(* a same-status request on a settled ticket was answered as a no-op *)
C6_Witness ==
  \E p \in Procs :
    /\ proc[p].op \in SettleOps
    /\ proc[p].result = "noop"
    /\ proc[p].req \in Terminal
    /\ tickets[proc[p].tid].status = proc[p].req
    /\ credited[proc[p].tid] > 0

(* what a settlement has to write: the ticket, its legs, and the balance   *)
(* when the ticket it read was pending and ends won or canceled            *)
SettlementWrites(snap, st) ==
  {"ticket", "legs"} \cup
    (IF snap.status = "pending" /\ st \in {"won", "canceled"}
     THEN {"balance"} ELSE {})

(* C7: settlement is atomic.  What a settlement request has committed is   *)
(* at every moment either nothing or all of its writes, and nothing when   *)
(* it ended in an error.                                                   *)
(* Stated under DriverDefault.                                            *)
C7_SettlementAtomic ==
  DriverDefault =>
    ( \A p \in Procs :
        proc[p].op \in SettleOps =>
          /\ proc[p].wrote \in {{}, SettlementWrites(proc[p].snap, proc[p].req)}
          /\ proc[p].result # "ok" => proc[p].wrote = {} )

C9_LegTicketLockstep ==
  DriverDefault =>
    ( \A t \in TicketIds : Exists(t) => LegsAre(t, tickets[t].status) )

(* C10: transition effects.  After the only settlement request made for a  *)
(* pending ticket has returned success, the owner has been credited the    *)
(* stored payout when it was settled won, the stake when canceled, nothing *)
(* when lost, and every leg has the ticket's new status.                   *)
(* Stated under DriverDefault.                                            *)
C10_TransitionEffects ==
  DriverDefault =>
    ( \A p \in Procs :
        ( /\ proc[p].op \in SettleOps
          /\ proc[p].result = "ok"
          /\ proc[p].snap.status = "pending"
          /\ ~proc[p].overlap
          /\ \A q \in Procs \ {p} : proc[q].tid # proc[p].tid )
        => /\ credited[proc[p].tid] =
                ( IF proc[p].req = "won" THEN proc[p].snap.payout
                  ELSE IF proc[p].req = "canceled" THEN proc[p].snap.stake
                  ELSE 0 )
           /\ LegsAre(proc[p].tid, proc[p].req) )

(* C11: insufficient funds.  A placement that read a balance below its     *)
(* stake was rejected at once (for funds, or before that for its empty     *)
(* selections) and wrote nothing; a placement rejected for funds read a    *)
(* balance below its stake.                                                *)
C11_InsufficientFunds ==
  \A p \in Procs :
    proc[p].op \in PlaceOps =>
      /\ proc[p].userBalance < proc[p].stake
           => ( /\ ~Active(p)
                /\ proc[p].result \in {"insufficient", "invalid"}
                /\ proc[p].wrote = {} )
      /\ proc[p].result = "insufficient"
           => proc[p].userBalance < proc[p].stake

(* ticket t was placed by the first request and canceled by the second,    *)
(* both returned success, and nothing is in flight                         *)
PlacedThenCanceled(t) ==
  /\ Quiet
  /\ ops = 2
  /\ t \in placedOk
  /\ tickets[t].status = "canceled"
  /\ \E p \in Procs :
       /\ proc[p].op \in SettleOps
       /\ proc[p].tid = t
       /\ proc[p].req = "canceled"
       /\ proc[p].result = "ok"

(* C12: place-then-cancel round trip.  After a placement and then the      *)
(* cancellation of its ticket, the owner's balance is what it was before   *)
(* the placement.                                                          *)
C12_PlaceThenCancel ==
  \A t \in TicketIds :
    PlacedThenCanceled(t)
      => balance[tickets[t].user] = InitBalance(tickets[t].user)

(* a ticket was placed and canceled, by either settlement handler *)
C12_Witness == \E t \in TicketIds : PlacedThenCanceled(t)

(* ticket t is the worked scenario's: placed with success by the user who  *)
(* held 100.00, stake 10.00, on the legs priced +150 and -120              *)
WorkedTicket(t) ==
  /\ Quiet
  /\ t \in placedOk
  /\ tickets[t].user = 2
  /\ tickets[t].stake = 1000
  /\ Len(items[t]) = 2
  /\ items[t][1].odds_value = 15000
  /\ items[t][2].odds_value = 0 - 12000

(* C13: worked scenario.  After that placement alone the stored payout is  *)
(* 45.83 and the balance 90.00; after its settlement as won the balance is *)
(* 135.83 and the ticket and both legs are won.                            *)
(* Stated under DriverDefault.                                            *)
C13_WorkedScenario ==
  DriverDefault =>
    ( \A t \in TicketIds :
        WorkedTicket(t) =>
          /\ ops = 1 => tickets[t].payout = 4583 /\ balance[2] = 9000
          /\ ( /\ ops = 2
               /\ \E p \in Procs : /\ proc[p].op \in SettleOps
                                    /\ proc[p].tid = t
                                    /\ proc[p].req = "won"
                                    /\ proc[p].result = "ok" )
              => ( /\ balance[2] = 13583
                   /\ tickets[t].status = "won"
                   /\ LegsAre(t, "won") ) )

(* the multiplier the specification gives an American price *)
SpecMultiplier(price) ==
  IF price >= 0 THEN <<100 + price, 100>> ELSE <<100 + Abs(price), Abs(price)>>

RECURSIVE SpecTotal(_)
SpecTotal(prices) ==
  IF prices = << >> THEN <<1, 1>>
  ELSE LET d == SpecMultiplier(Head(prices))
           r == SpecTotal(Tail(prices))
       IN <<d[1] * r[1], d[2] * r[2]>>

(* C14: price computation.  For every list of one or two legs and every    *)
(* stake, the computation stores a ticket whose potential payout is the    *)
(* stake times the product of the specified multipliers, 1 + p/100 for     *)
(* p >= 0 and 1 + 100/|p| for p < 0, to two decimals.                      *)
C14_PriceComputation ==
  calc.outcome # "none" =>
    /\ calc.outcome = "stored"
    /\ calc.payout = RoundDiv(calc.stake * SpecTotal(calc.prices)[1],
                               SpecTotal(calc.prices)[2])

(* the legs `after` are legs of `before`, with their copied odds values *)
LegsKept(before, after) ==
  \A i \in DOMAIN after : \E j \in DOMAIN before :
    /\ after[i].odds_id = before[j].odds_id
    /\ after[i].odds_value = before[j].odds_value

C17_EventGate ==
  [][\A p \in Procs :
       (proc[p].pc = "pb_odds" /\ proc'[p].pc = "pb_debit") =>
         \A i \in DOMAIN proc[p].sel :
           /\ eventStatus[OddsEvent(proc[p].sel[i])] = "upcoming"
           /\ OddsEvent(proc[p].sel[i]) \notin started]_vars

(* C18: positive stake.  A placement whose stake is zero or negative does  *)
(* not succeed and writes nothing: no ticket, no leg, no balance change.   *)
C18_PositiveStake ==
  \A p \in Procs :
    (proc[p].op \in PlaceOps /\ proc[p].stake <= 0) =>
      /\ proc[p].result # "ok"
      /\ proc[p].wrote = {}

(* C19: deletion precondition.  A delete request goes on to delete the     *)
(* legs and the ticket only when the ticket it read is pending or canceled *)
(* and the event of none of its legs has started.                          *)
C19_DeletionPrecondition ==
  [][\A p \in Procs :
       (proc[p].pc = "dt_items" /\ proc'[p].pc = "dt_ticket") =>
         /\ proc[p].snap.status \in {"pending", "canceled"}
         /\ \A i \in DOMAIN items[proc[p].tid] :
              items[proc[p].tid][i].event_id \notin started]_vars

(* C20: immutable leg set.  No step that keeps a placed ticket in the      *)
(* store changes which legs it has.                                        *)
C20_ImmutableLegSet ==
  [][\A t \in TicketIds :
       (t \in placedOk /\ Exists(t) /\ Exists(t)') =>
         /\ Len(items'[t]) = Len(items[t])
         /\ \A i \in DOMAIN items[t] :
              items'[t][i].odds_id = items[t][i].odds_id]_vars

(* C26: transaction closed before release.  When placeBet or one of the    *)
(* two updateTicketStatus handlers has returned and released its client,   *)
(* the transaction it opened with BEGIN was ended by COMMIT or ROLLBACK.   *)
(* Stated under DriverDefault.                                             *)
C26_TransactionClosed ==
  DriverDefault =>
    ( \A p \in Procs :
        (proc[p].op \in {"placeBet", "betSettle", "ticketSettle"}
           /\ ~Active(p))
          => proc[p].tx \in {"committed", "rolledback"} )

(* C23: error classification.  The response to an AppError carries its own *)
(* status code and message; the response to any other error is status 500  *)
(* with the fixed message, which is not the error's message and is not the *)
(* response to any AppError.                                               *)
C23_ErrorClassification ==
  handled.status # 0 =>
    IF handled.err.kind = "AppError"
    THEN /\ handled.status = handled.err.statusCode
         /\ handled.message = handled.err.message
         /\ <<handled.status, handled.message>> # <<500, InternalMessage>>
    ELSE /\ handled.status = 500
         /\ handled.message = InternalMessage
         /\ handled.message # handled.err.message

(* an error that is not an AppError and carries a statusCode of its own    *)
(* was answered                                                            *)
C23_Witness ==
  /\ handled.err.kind = "Error"
  /\ handled.err.statusCode = 400
  /\ handled.status = 500

(* the handler slot that takes the step *)
Acts(p) == proc'[p].pc # proc[p].pc

(* the user whose ticket, deposit or withdrawal slot p is working on *)
OwnerOf(p) ==
  IF proc[p].op \in PlaceOps \cup {"depositStatus", "withdrawalStatus"}
  THEN proc[p].user
  ELSE IF Exists(proc[p].tid) THEN tickets[proc[p].tid].user
  ELSE proc[p].snap.user

(* C21: closed set of balance mutations.  A step changes a user's balance  *)
(* only as a step of a deposit completion, a withdrawal completion, a bet  *)
(* placement or a bet settlement as won or canceled, for that user.        *)
C21_ClosedBalanceMutations ==
  [][\A u \in Users :
       balance'[u] # balance[u] =>
         \E p \in Procs :
           /\ Acts(p)
           /\ OwnerOf(p) = u
           /\ \/ proc[p].op \in {"depositStatus", "withdrawalStatus"}
                   /\ proc[p].req = "completed"
              \/ proc[p].op \in PlaceOps
              \/ proc[p].op \in SettleOps
                   /\ proc[p].req \in {"won", "canceled"}]_vars

(* no status request for the row is in flight *)
DepositQuiet(d) ==
  \A p \in Procs : ~(Active(p) /\ proc[p].op = "depositStatus" /\ proc[p].tid = d)

WithdrawalQuiet(w) ==
  \A p \in Procs :
    ~(Active(p) /\ proc[p].op = "withdrawalStatus" /\ proc[p].tid = w)

(* C27: deposit credited exactly once.  With no status request for it in   *)
(* flight, a completed deposit has added its amount to the owner's balance *)
(* once, and a pending or rejected deposit has added nothing.              *)
C27_DepositCreditedOnce ==
  \A d \in DepositIds :
    DepositQuiet(d) =>
      deposits[d].net = IF deposits[d].status = "completed"
                        THEN deposits[d].amount ELSE 0

(* C28: withdrawal rejection is neutral.  With no status request for it in *)
(* flight, a withdrawal has taken its amount from the owner's balance when *)
(* it is completed and has changed the balance by nothing when it is       *)
(* pending or rejected.                                                    *)
C28_RejectionNeutral ==
  \A w \in WithdrawalIds :
    WithdrawalQuiet(w) =>
      withdrawals[w].net = IF withdrawals[w].status = "completed"
                           THEN 0 - withdrawals[w].amount ELSE 0

(* C29: withdrawal completion never overdraws.  At the end of a completion *)
(* request: when it commits, the owner's balance is not below zero; when   *)
(* the amount it debits exceeds the owner's balance, it does not commit;   *)
(* and when it does not commit, the withdrawal keeps its status and every  *)
(* balance is unchanged.                                                   *)
C29_CompletionNeverOverdraws ==
  [][\A p \in Procs :
       (proc[p].pc = "ws_finish" /\ proc[p].req = "completed" /\ Acts(p)) =>
         LET u == proc[p].snap.user
             w == proc[p].tid
         IN /\ proc'[p].result = "ok" => balance'[u] >= 0
            /\ 0 - proc[p].delta > balance[u] => proc'[p].result # "ok"
            /\ proc'[p].result # "ok" =>
                 /\ withdrawals'[w].status = withdrawals[w].status
                 /\ balance' = balance]_vars

(* a completion was refused because the amount exceeded the balance, and   *)
(* the withdrawal is still pending                                         *)
C29_Witness ==
  \E p \in Procs :
    /\ proc[p].op = "withdrawalStatus"
    /\ proc[p].req = "completed"
    /\ proc[p].result = "negative"
    /\ withdrawals[proc[p].tid].status = "pending"
    /\ withdrawals[proc[p].tid].amount > balance[proc[p].snap.user]

(* C30: one-way statuses.  No step changes the status of a deposit or of a *)
(* withdrawal that is completed or rejected.                               *)
C30_OneWayStatuses ==
  [][/\ \A d \in DepositIds :
          deposits[d].status \in {"completed", "rejected"}
            => deposits'[d].status = deposits[d].status
     /\ \A w \in WithdrawalIds :
          withdrawals[w].status \in {"completed", "rejected"}
            => withdrawals'[w].status = withdrawals[w].status]_vars

TicketOps == PlaceOps \cup SettleOps \cup {"deleteTicket"}

(* C22: cross-user isolation.  A step of a placement, a settlement or a    *)
(* deletion changes no balance but the one of the ticket's owner and no    *)
(* ticket or leg but those of the ticket it works on.                      *)
C22_CrossUserIsolation ==
  [][\A p \in Procs :
       (Acts(p) /\ Active(p) /\ proc[p].op \in TicketOps) =>
         /\ \A u \in Users \ {OwnerOf(p)} : balance'[u] = balance[u]
         /\ \A t \in TicketIds \ {proc[p].tid} :
              tickets'[t] = tickets[t] /\ items'[t] = items[t]]_vars

(* a request on a ticket of user 1 succeeded and user 1's balance has      *)
(* changed, while user 2's balance and ticket are as they were             *)
C22_Witness ==
  /\ \E p \in Procs : proc[p].op \in TicketOps /\ proc[p].result = "ok"
                        /\ OwnerOf(p) = 1
  /\ balance[1] # InitBalance(2)
  /\ balance[2] = InitBalance(2)
  /\ \E st \in Statuses : tickets[2] = DeskTicket(2, st) /\ items[2] = DeskLegs(st)

(* the request of slot p was answered with a success status *)
Accepted(p) == proc[p].result \in {"ok", "noop"}

(* C24: the two settlement entry points agree.  When a request through     *)
(* BetController on one ticket and a request through TicketController on   *)
(* the other, for the same status and on tickets read in the same status,  *)
(* have both returned without a failed statement, both were accepted or    *)
(* both rejected, and the two tickets, their legs and their owners'        *)
(* balances are equal.                                                     *)
C24_EntryPointsAgree ==
  \A p, q \in Procs :
    ( /\ Quiet /\ ops = 2
      /\ proc[p].op = "betSettle" /\ proc[q].op = "ticketSettle"
      /\ {proc[p].tid, proc[q].tid} = DeskTickets
      /\ proc[p].req = proc[q].req
      /\ proc[p].snap.status = proc[q].snap.status
      /\ proc[p].result # "dberror" /\ proc[q].result # "dberror" )
    => /\ Accepted(p) = Accepted(q)
       /\ tickets[proc[p].tid].status = tickets[proc[q].tid].status
       /\ \A st \in Statuses :
            LegsAre(proc[p].tid, st) = LegsAre(proc[q].tid, st)
       /\ balance[tickets[proc[p].tid].user] = balance[tickets[proc[q].tid].user]

(* C25: stake refunded at most once.  With no request in flight, what was  *)
(* added to the owner's balance for a ticket that is canceled or deleted   *)
(* is nothing or the stake, once.                                          *)
C25_StakeRefundedOnce ==
  \A t \in TicketIds :
    (Quiet /\ tickets[t].status \in {"canceled", "none"})
      => credited[t] \in {0} \cup Stakes

====
